---------------------------- MODULE Spec2Model ----------------------------
(***************************************************************************)
(* Model of src/main/main.ino: a two-valve irrigation controller with a    *)
(* safety relay, a flow-sensor interrupt, a SIM800 SMS command parser and  *)
(* an EEPROM-backed volume totalizer.                                      *)
(*                                                                         *)
(* loop() is modelled by two actions, LoopIter (lines 188-202: the modem   *)
(* read, the time measurement and the read of pulsesCount) and Tick        *)
(* (lines 204-366: the rest of the sampling tick), because the flow-sensor *)
(* interrupt countPulses can run between the read of pulsesCount and its   *)
(* reset.  Everything else in a tick touches no state the interrupt        *)
(* touches, so the remainder of the tick is one action.                    *)
(*                                                                         *)
(* C strings are TLA+ strings; a char array holds the characters before    *)
(* its first NUL.  Times are milliseconds, kept as 32-bit words as millis()    *)
(* and the unsigned long globals do; int locals are 16 bits as on the AVR. *)
(***************************************************************************)
EXTENDS Integers, Sequences, FiniteSets, TLC

VARIABLES
    pc,                      \* "loop": at the top of loop(); "reset": between lines 202 and 204
    clock,                   \* millis()
    boots,                   \* number of power cycles so far
    valveOpen,               \* valveOpen1, valveOpen2
    relayOn,
    prevMeasurementTime,
    irrigationStartTime,     \* irrigationStartTime1, irrigationStartTime2
    pulsesCount,
    totalWaterVolume,        \* in pulse-seconds: litres * FLOW_CONVERSION_FACTOR * 60
    eeprom,                  \* the float stored at EEPROM_ADDRESS, same unit, or NaN
    senderNum,
    message,
    sendMeasurements,
    prevEepromWriteTime,
    lowVoltageSmsSent,
    remoteIrrigationPending, \* remoteIrrigationPending1, remoteIrrigationPending2
    wasButtonPressed,        \* wasButtonPressed1, wasButtonPressed2
    buttonPressedStartTime,  \* buttonPressedStartTime1, buttonPressedStartTime2
    buttonBrokenFlag,        \* buttonBrokenFlag1, buttonBrokenFlag2
    closeRelayRequested,
    dt,                      \* loop()'s local dt, live between lines 195 and 219
    pulsesRead,              \* the value of pulsesCount read at line 202
    inflight,                \* the SMS frame on its way to the modem's serial line, "" if none
    smsCount,                \* frames the network has delivered since boot
    pulsesSeen,              \* interrupts completed since boot
    pulsesUsed,              \* sum of the pulse counts used for the flow computation since boot
    requester,               \* for each circuit, the sender of the message that last raised its request
    heldSince,               \* for each circuit, when its pin was first read low in the current run of
                             \* low readings, as << t >>; << >> when it was last read high or never read
    tick,                    \* what the last sampling tick saw and decided
    events                   \* what the last handler did, in order

vars == << pc, clock, boots, valveOpen, relayOn, prevMeasurementTime,
           irrigationStartTime, pulsesCount, totalWaterVolume, eeprom,
           senderNum, message, sendMeasurements, prevEepromWriteTime,
           lowVoltageSmsSent, remoteIrrigationPending, wasButtonPressed,
           buttonPressedStartTime, buttonBrokenFlag, closeRelayRequested,
           dt, pulsesRead, inflight, smsCount, pulsesSeen, pulsesUsed,
           requester, heldSince, tick, events >>

----------------------------------------------------------------------------
(* Program constants, lines 43-92.                                         *)

SAMPLE_TIME == 1000
TIME_BETWEEN_IRRIGATIONS1 == 2000
TIME_BETWEEN_IRRIGATIONS2 == 2000
BUTTON_SAFETY_TIME1 == 10000
BUTTON_SAFETY_TIME2 == 10000
EFFECTIVE_IRRIGATION_TIME1 == 7000
EFFECTIVE_IRRIGATION_TIME2 == 7000
HUMIDITY_THRESHOLD == 720
TEMPERATURE_THRESHOLD == 980
VOLTAGE_THRESHOLD == 6
PHONE_NUMBER == "+34605521505"
BUFFER_SIZE == 127
STATUS_COMMAND == "ESTADO"
IRRIGATION_COMMAND1 == "RIEGO1"
IRRIGATION_COMMAND2 == "RIEGO2"
CLOSE_COMMAND == "CERRAR"
EEPROM_WRITE_SAMPLE_TIME == 1440

TIME_BETWEEN_IRRIGATIONS(i) ==
    IF i = 1 THEN TIME_BETWEEN_IRRIGATIONS1 ELSE TIME_BETWEEN_IRRIGATIONS2
BUTTON_SAFETY_TIME(i) ==
    IF i = 1 THEN BUTTON_SAFETY_TIME1 ELSE BUTTON_SAFETY_TIME2
EFFECTIVE_IRRIGATION_TIME(i) ==
    IF i = 1 THEN EFFECTIVE_IRRIGATION_TIME1 ELSE EFFECTIVE_IRRIGATION_TIME2
\* a faulty lines 82-83: the command words without the valve's number
IrrigationWord(i) == "RIEGO"

IRRIGATION_COMMAND(i) ==
    IF i = 1 THEN IRRIGATION_COMMAND1 ELSE IRRIGATION_COMMAND2

\* The blocking delays of the code, in milliseconds.
ValveDelay == 300            \* delay(300) of openValve / closeValve
SmsDelay1 == 100             \* delay(100) after AT+CMGS
SmsDelay2 == 100             \* delay(100) after the text
SmsDelay3 == 1000            \* delay(1000) after Ctrl-Z
ReadDelay == 1000            \* delay(1000) of readSIM800Data when bytes are waiting
InitReads == 7                \* the seven delay(100) of initializeSIM800
LoopDelay == 100             \* delay(100) at the end of loop()

Circuits == {1, 2}

----------------------------------------------------------------------------
(* Bounds of the model.                                                    *)

LongRun == 18                \* grid steps after boot in which the loop is watched, for valve timing
ShortRun == 7                \* the same, where no valve timing is watched
MaxPulses == 2               \* flow-sensor interrupts per power cycle
MaxMessages == 1             \* inbound frames per power cycle, where valves are watched
MaxFrames == 2               \* inbound frames per power cycle, where the parser is watched
MaxBoots == 1                \* power cycles
MaxSlot == 7                 \* sendSMS calls of one tick during which a frame can arrive
MaxDays == 2                 \* persistence intervals after boot in which the loop is watched
MaxMargin == 3               \* ticks before a periodic write is due at which the watch resumes
WrapLead == 12               \* seconds before millis() wraps at which the watch of the wrap begins

----------------------------------------------------------------------------
(* Integer widths.                                                         *)

\* An unsigned long is held as the 32-bit two's-complement integer with the
\* same bits: the word u >= 2^31 is held as u - 2^32.  Sums and differences
\* wrap modulo 2^32; comparison and division are those of the unsigned values.
MaxWord == 2147483647

Add32(a, b) ==
    IF a >= 0 /\ b >= 0 /\ a > MaxWord - b
    THEN ((a - MaxWord) - 1) + (b - MaxWord) - 1
    ELSE IF a < 0 /\ b < 0 /\ a < (-MaxWord - 1) - b
         THEN ((a + MaxWord) + 1) + (b + MaxWord) + 1
         ELSE a + b

Sub32(a, b) ==
    IF b = -MaxWord - 1
    THEN Add32(Add32(a, MaxWord), 1)
    ELSE Add32(a, -b)

\* a >= b as unsigned values
UGe(a, b) == IF (a < 0) = (b < 0) THEN a >= b ELSE a < 0

\* a / k as unsigned values, k > 0
UDiv(a, k) ==
    IF a >= 0
    THEN a \div k
    ELSE LET e == (a + MaxWord) + 1
         IN  (MaxWord \div k) + (e \div k) + ((e % k) + (MaxWord % k) + 1) \div k

\* conversion to the AVR's 16-bit int
ToInt(x) == LET m == x % 65536 IN IF m >= 32768 THEN m - 65536 ELSE m

\* integer division of C, which truncates toward zero
CDiv(a, b) == IF a >= 0 THEN a \div b ELSE -((-a) \div b)

\* the float read from an erased EEPROM (all bytes 0xFF) is a NaN
NaN == -1


----------------------------------------------------------------------------
(* The inbound frames the model draws from, and the bytes an out-of-bounds *)
(* read of bufferData can return.                                          *)

\* line 6: the example frame of the SMS_SIMULATION comment
ExampleFrame ==
    "+CMT: \"+34605521505\",\"\",\"22/02/04,01:47:51+04\" RIEGO,MEASUREMENTS"
\* the same frame with the command literals of lines 79-83 as its body
CommandFrame ==
    "+CMT: \"+34605521505\",\"\",\"22/02/04,01:47:51+04\" RIEGO1,ESTADO"
\* a request for valve 2 from another sender
OtherFrame == "+CMT: \"+34600000001\",\"\",\"\" RIEGO2"
\* a relay closure request
CloseFrame == "+CMT: \"+34605521505\",\"\",\"\" CERRAR"
\* a frame cut before the quote that ends the sender
CutFrame == "+CMT: \"+3460552"
\* a batch without the marker: the tail of a frame whose head was read earlier
TailFrame == ": \"+34600000001\",\"\",\"\" RIEGO2"

Frames == {ExampleFrame, CommandFrame, OtherFrame, CloseFrame, CutFrame, TailFrame}

\* bufferData[bufferIndex - 3 .. bufferIndex - 1] for bufferIndex < 3 lies
\* before the array: whatever the preceding globals hold.
PreBytes == {"###", "CMT"}

----------------------------------------------------------------------------
(* The program's globals as one record, threaded through the handlers.     *)
(* now is millis(); slot says during which sendSMS call from here on the   *)
(* frame in flight reaches the serial line (0: not in this handler); pre   *)
(* is what the bytes before bufferData hold.  buttonPressed holds loop()'s  *)
(* locals buttonPressed1 and buttonPressed2; armed and reset record which  *)
(* branch lines 280 and 207 took; pinLow and readAt record what line 402   *)
(* read from each button's pin in this tick, and when.                     *)

Globals(now, slot, pre) ==
    [ valveOpen |-> valveOpen, relayOn |-> relayOn,
      irrigationStartTime |-> irrigationStartTime,
      totalWaterVolume |-> totalWaterVolume, eeprom |-> eeprom,
      senderNum |-> senderNum, message |-> message,
      sendMeasurements |-> sendMeasurements,
      prevEepromWriteTime |-> prevEepromWriteTime,
      lowVoltageSmsSent |-> lowVoltageSmsSent,
      remoteIrrigationPending |-> remoteIrrigationPending,
      wasButtonPressed |-> wasButtonPressed,
      buttonPressedStartTime |-> buttonPressedStartTime,
      buttonBrokenFlag |-> buttonBrokenFlag,
      closeRelayRequested |-> closeRelayRequested,
      buttonPressed |-> [i \in Circuits |-> FALSE],
      armed |-> FALSE, reset |-> FALSE, requester |-> requester,
      heldSince |-> heldSince,
      pinLow |-> [i \in Circuits |-> FALSE],
      readAt |-> [i \in Circuits |-> << >>],
      inflight |-> inflight, now |-> now, slot |-> slot, pre |-> pre,
      events |-> << >> ]

\* One entry of the log of a handler.
Ev(e, k, id, s, relay) == [e |-> e, k |-> k, id |-> id, s |-> s, relay |-> relay]

Log(g, ev) == [g EXCEPT !.events = Append(@, ev)]

Delay(g, ms) == [g EXCEPT !.now = Add32(@, ms)]

----------------------------------------------------------------------------
(* readSIM800Data, lines 585-663.                                          *)

\* strstr(haystack, needle) != NULL
strstr(haystack, needle) ==
    \E i \in 1..(Len(haystack) - Len(needle) + 1) :
        SubSeq(haystack, i, i + Len(needle) - 1) = needle

\* bufferData[j] while batch is being read into it from index 0
BufAt(batch, pre, j) ==
    IF j >= 0 THEN SubSeq(batch, j + 1, j + 1) ELSE SubSeq(pre, j + 4, j + 4)

\* The parser's state at the start of a batch: lines 651-654 and 659 leave
\* it so after every batch, and the globals start so.  lowest is the lowest
\* index of bufferData the batch has read so far.
ParseStart(sender, msg) ==
    [ bufferIndex |-> 0, cmtOk |-> FALSE, cmtIndex |-> 0, msgOk |-> FALSE,
      msgIndex |-> 0, senderNum |-> sender, message |-> msg, lowest |-> 0 ]

\* lines 598-599: outside a sender's number, the byte three places back is
\* read at every byte
scanBack(p, i) ==
    IF ~p.cmtOk /\ i - 3 < p.lowest
    THEN [p EXCEPT !.lowest = i - 3]
    ELSE p

\* lines 598-606: "CMT:" ends at byte i of batch
findMarker(p, batch, pre, i) ==
    IF /\ ~p.cmtOk
       /\ BufAt(batch, pre, i - 3) = "C"
       /\ BufAt(batch, pre, i - 2) = "M"
       /\ BufAt(batch, pre, i - 1) = "T"
       /\ BufAt(batch, pre, i) = ":"
    THEN [p EXCEPT !.cmtOk = TRUE, !.senderNum = "", !.cmtIndex = 0]
    ELSE p

\* lines 609-623: the sender's number, with c the byte read
readSender(p, c) ==
    IF p.cmtOk
    THEN IF c # " " /\ c # "\"" /\ c # ":"
         THEN [p EXCEPT !.senderNum = @ \o c, !.cmtIndex = @ + 1]
         ELSE IF p.cmtIndex > 0
              THEN [p EXCEPT !.cmtOk = FALSE]
              ELSE p
    ELSE p

\* lines 626-631: the message starts once the sender's number has ended
startMessage(p) ==
    IF p.cmtOk = FALSE /\ p.cmtIndex > 0 /\ p.msgOk = FALSE
    THEN [p EXCEPT !.msgOk = TRUE, !.message = "", !.msgIndex = 0]
    ELSE p

\* lines 634-638
readMessage(p, c) ==
    IF p.msgOk
    THEN [p EXCEPT !.message = @ \o c, !.msgIndex = @ + 1]
    ELSE p

\* line 640
nextByte(p) == [p EXCEPT !.bufferIndex = @ + 1]

\* lines 594-640: one pass of the while loop, on byte i of batch
ParseByte(p, batch, pre, i) ==
    nextByte(readMessage(startMessage(readSender(
                                          findMarker(scanBack(p, i), batch, pre, i),
                                          BufAt(batch, pre, i))),
                         BufAt(batch, pre, i)))

\* lines 592-641: the while loop over the bytes of batch
RECURSIVE ParseBatch(_, _, _)
ParseBatch(p, batch, pre) ==
    IF p.bufferIndex >= Len(batch)
    THEN p
    ELSE ParseBatch(ParseByte(p, batch, pre, p.bufferIndex), batch, pre)

RECURSIVE sendSMS(_, _, _, _)

\* lines 741-744
sendCloseRelayConfirmationSMS(g) == sendSMS(g, "closeAck", 0, g.senderNum)

\* lines 668-671
statusCommand(g) ==
    IF strstr(g.message, STATUS_COMMAND)
    THEN [g EXCEPT !.sendMeasurements = TRUE]
    ELSE g

\* lines 673-676 and 678-681
irrigationCommand(g, i) ==
    IF strstr(g.message, IRRIGATION_COMMAND(i))
    THEN [g EXCEPT !.remoteIrrigationPending[i] = TRUE,
                   !.requester[i] = IF g.remoteIrrigationPending[i]
                                    THEN @ ELSE g.senderNum]
    ELSE g

\* lines 683-692
closeCommand(g) ==
    IF strstr(g.message, CLOSE_COMMAND)
    THEN sendCloseRelayConfirmationSMS([g EXCEPT !.closeRelayRequested = TRUE])
    ELSE g

\* lines 666-693
evaluateSmsCommand(g) ==
    closeCommand(irrigationCommand(irrigationCommand(statusCommand(g), 1), 2))

\* lines 643-661, with p the parser's state after the batch
endOfBatch(g, p, batch) ==
    IF p.cmtIndex > 0
    THEN evaluateSmsCommand(
             Log([g EXCEPT !.senderNum = p.senderNum, !.message = p.message],
                 Ev("dispatch", "", 0, batch, g.relayOn)))
    ELSE [g EXCEPT !.senderNum = p.senderNum, !.message = p.message]

\* lines 592-641 have run: the lowest index of bufferData they read is logged
scanned(g, p, batch) ==
    endOfBatch(Log(g, Ev("scan", "", p.lowest, batch, g.relayOn)), p, batch)

\* lines 585-663, with batch the bytes available() reports ("" for none)
readSIM800Data(g, batch) ==
    IF batch = ""
    THEN g
    ELSE scanned(Log(Delay(g, ReadDelay), Ev("rx", "", 0, batch, g.relayOn)),
                 ParseBatch(ParseStart(g.senderNum, g.message), batch, g.pre),
                 batch)

\* lines 552-578.  The frame in flight reaches the serial line during the
\* call numbered slot and is read by the read of line 567; the reads of
\* lines 572 and 577 then find no byte waiting.
sendSMS(g, kind, id, phone_number) ==
    Delay(Delay(
        readSIM800Data(
            [Delay(Log(g, Ev("sms", kind, id, phone_number, g.relayOn)), SmsDelay1)
                EXCEPT !.slot = IF @ > 0 THEN @ - 1 ELSE 0,
                       !.inflight = IF g.slot = 1 THEN "" ELSE @],
            IF g.slot = 1 THEN g.inflight ELSE ""),
        SmsDelay2), SmsDelay3)

\* lines 696-709: the payload shows valveOpen1, valveOpen2 and relayOn
sendMeasurementsSMS(g) ==
    sendSMS(g, "status", (IF g.valveOpen[1] THEN 1 ELSE 0)
                         + (IF g.valveOpen[2] THEN 2 ELSE 0), g.senderNum)

\* lines 712-723
sendLowVoltageSMSAlert(g) == sendSMS(g, "lowVoltage", 0, PHONE_NUMBER)

\* lines 726-730
sendIrrigationConfirmationSMS(g, valveId) ==
    sendSMS(Log(g, Ev("requestOf", "", valveId, g.requester[valveId], g.relayOn)),
            "confirm", valveId, g.senderNum)

\* a faulty lines 733-738: the alert goes to the last sender, as the replies do
sendBrokenButtonToSender(g, buttonId) == sendSMS(g, "broken", buttonId, g.senderNum)

\* lines 733-738
sendBrokenButtonSMS(g, buttonId) == sendSMS(g, "broken", buttonId, PHONE_NUMBER)

----------------------------------------------------------------------------
(* The sensor readings the model draws from: analogRead of the humidity,   *)
(* temperature and voltage pins.                                           *)

Nominal    == [humidity |-> 700, temperature |-> 1000, voltageRaw |-> 1000]
AtLimits   == [humidity |-> 720, temperature |-> 980,  voltageRaw |-> 989]
Wet        == [humidity |-> 721, temperature |-> 1000, voltageRaw |-> 1000]
Cold       == [humidity |-> 700, temperature |-> 979,  voltageRaw |-> 1000]
LowBattery == [humidity |-> 700, temperature |-> 1000, voltageRaw |-> 988]

Snapshots == {Nominal, AtLimits, Wet, Cold, LowBattery}

\* The button inputs the model draws from: !digitalRead of each button pin.
Released     == [i \in Circuits |-> FALSE]
FirstPressed == [i \in Circuits |-> i = 1]
BothPressed  == [i \in Circuits |-> TRUE]

\* line 235 and the tests of lines 238 and 280:
\* analogRead * (5.01 / 1023.00) * 1.24 < VOLTAGE_THRESHOLD, in exact arithmetic
VoltageLow(raw) == raw * 501 * 124 < VOLTAGE_THRESHOLD * 1023 * 100 * 100

----------------------------------------------------------------------------
(* Valves and buttons.                                                     *)

\* a faulty lines 443-460: the modem is read after the actuation pulse, as
\* sendSMS reads it after each of its writes
openValveThenRead(g, valveId) ==
    readSIM800Data(
        [Delay(Log(g, Ev("open", "", valveId, "", g.relayOn)), ValveDelay)
            EXCEPT !.slot = IF @ > 0 THEN @ - 1 ELSE 0,
                   !.inflight = IF g.slot = 1 THEN "" ELSE @],
        IF g.slot = 1 THEN g.inflight ELSE "")

\* lines 443-460
openValve(g, valveId) ==
    Delay(Log(g, Ev("open", "", valveId, "", g.relayOn)), ValveDelay)

\* lines 463-480
closeValve(g, valveId) ==
    Delay(Log(g, Ev("close", "", valveId, "", g.relayOn)), ValveDelay)

\* a faulty lines 371-440: a released button leaves wasButtonPressed as it
\* is (lines 434-438 left out)
checkButtonKeepsRun(g, buttonId, pinLow) ==
    LET g0 == Log(g, Ev("digitalRead", "", buttonId, "", g.relayOn))
        currentMillis == ToInt(g.now)
        buttonPressedElapsedTime ==
            ToInt(Sub32(currentMillis, g.buttonPressedStartTime[buttonId]))
    IN  IF pinLow
        THEN IF ~g.wasButtonPressed[buttonId]
             THEN [g0 EXCEPT !.wasButtonPressed[buttonId] = TRUE,
                             !.buttonPressedStartTime[buttonId] = currentMillis,
                             !.buttonPressed[buttonId] = TRUE]
             ELSE IF buttonPressedElapsedTime >= BUTTON_SAFETY_TIME(buttonId)
                  THEN sendBrokenButtonSMS(
                           [g0 EXCEPT !.buttonBrokenFlag[buttonId] = TRUE,
                                      !.buttonPressed[buttonId] = FALSE],
                           buttonId)
                  ELSE [g0 EXCEPT !.buttonPressed[buttonId] = TRUE]
        ELSE [g0 EXCEPT !.buttonPressed[buttonId] = FALSE]

\* lines 371-440, with pinLow what !digitalRead(buttonPin) gives; the result
\* is left in buttonPressed[buttonId]
checkButtonStatus(g, buttonId, pinLow) ==
    LET g0 == Log(g, Ev("digitalRead", "", buttonId, "", g.relayOn))
        currentMillis == ToInt(g.now)
        buttonPressedElapsedTime ==
            ToInt(Sub32(currentMillis, g.buttonPressedStartTime[buttonId]))
    IN  IF pinLow
        THEN IF ~g.wasButtonPressed[buttonId]
             THEN [g0 EXCEPT !.wasButtonPressed[buttonId] = TRUE,
                             !.buttonPressedStartTime[buttonId] = currentMillis,
                             !.buttonPressed[buttonId] = TRUE]
             ELSE IF buttonPressedElapsedTime >= BUTTON_SAFETY_TIME(buttonId)
                  THEN sendBrokenButtonSMS(
                           [g0 EXCEPT !.buttonBrokenFlag[buttonId] = TRUE,
                                      !.buttonPressed[buttonId] = FALSE],
                           buttonId)
                  ELSE [g0 EXCEPT !.buttonPressed[buttonId] = TRUE]
        ELSE [g0 EXCEPT !.wasButtonPressed[buttonId] = FALSE,
                        !.buttonPressed[buttonId] = FALSE]

\* line 402 reads the pin of the button: the reading and its time are
\* recorded, and the start of the run of low readings it belongs to
digitalRead(g, buttonId, pinLow) ==
    [g EXCEPT !.pinLow[buttonId] = pinLow,
              !.readAt[buttonId] = << g.now >>,
              !.heldSince[buttonId] = IF pinLow
                                      THEN IF @ = << >> THEN << g.now >> ELSE @
                                      ELSE << >>]

\* a faulty lines 244-267: the button is read whatever its broken flag says
readButtonAlways(g, buttonId, pinLow) == checkButtonStatus(g, buttonId, pinLow)

\* lines 244-267: a broken button is not read
readButton(g, buttonId, pinLow) ==
    IF g.buttonBrokenFlag[buttonId]
    THEN [g EXCEPT !.buttonPressed[buttonId] = FALSE]
    ELSE checkButtonStatus(digitalRead(g, buttonId, pinLow), buttonId, pinLow)

----------------------------------------------------------------------------
(* The sampling tick of loop(), lines 204-364.                             *)

\* a faulty lines 206-219: the volume of the sample replaces the total (= for
\* += at line 219)
sampleVolumeOfTick(g, console, pulses, elapsed) ==
    IF console = "r"
    THEN Log([g EXCEPT !.totalWaterVolume = 0, !.eeprom = 0, !.reset = TRUE],
             Ev("clear", "", 0, "", g.relayOn))
    ELSE [g EXCEPT !.totalWaterVolume = pulses * CDiv(elapsed, 1000)]

\* a faulty lines 206-219: the reset clears the volume in RAM only
sampleVolumeInRam(g, console, pulses, elapsed) ==
    IF console = "r"
    THEN Log([g EXCEPT !.totalWaterVolume = 0, !.reset = TRUE],
             Ev("clear", "", 0, "", g.relayOn))
    ELSE [g EXCEPT !.totalWaterVolume = @ + pulses * CDiv(elapsed, 1000)]

\* lines 206-219, with console the byte waiting on Serial ("" for none)
sampleVolume(g, console, pulses, elapsed) ==
    IF console = "r"
    THEN Log([g EXCEPT !.totalWaterVolume = 0, !.eeprom = 0, !.reset = TRUE],
             Ev("clear", "", 0, "", g.relayOn))
    ELSE [g EXCEPT !.totalWaterVolume = @ + pulses * CDiv(elapsed, 1000)]

\* line 222: the time between two periodic writes in milliseconds, the least
\* difference whose whole minutes reach EEPROM_WRITE_SAMPLE_TIME
PersistInterval == EEPROM_WRITE_SAMPLE_TIME * 60000

\* a faulty lines 221-230: the report of the stored volume is not requested
persistSilently(g, currentMillis) ==
    IF UDiv(Sub32(currentMillis, g.prevEepromWriteTime), 60000) >= EEPROM_WRITE_SAMPLE_TIME
    THEN Log([g EXCEPT !.prevEepromWriteTime = currentMillis,
                       !.eeprom = g.totalWaterVolume],
             Ev("put", "", 0, "", g.relayOn))
    ELSE g

\* lines 221-230
persistVolume(g, currentMillis) ==
    IF UDiv(Sub32(currentMillis, g.prevEepromWriteTime), 60000) >= EEPROM_WRITE_SAMPLE_TIME
    THEN Log([g EXCEPT !.prevEepromWriteTime = currentMillis,
                       !.sendMeasurements = TRUE,
                       !.eeprom = g.totalWaterVolume],
             Ev("put", "", 0, "", g.relayOn))
    ELSE g

\* lines 237-242
lowVoltageAlert(g, snap) ==
    IF VoltageLow(snap.voltageRaw) /\ ~g.lowVoltageSmsSent
    THEN sendLowVoltageSMSAlert([g EXCEPT !.lowVoltageSmsSent = TRUE])
    ELSE g

\* lines 269-274
reportMeasurements(g) ==
    IF g.sendMeasurements
    THEN sendMeasurementsSMS([g EXCEPT !.sendMeasurements = FALSE])
    ELSE g

\* a faulty line 280: the relay closure requested by SMS is left out
DisarmedUnlessClosed(g, snap) ==
    \/ snap.humidity > HUMIDITY_THRESHOLD
    \/ VoltageLow(snap.voltageRaw)
    \/ snap.temperature < TEMPERATURE_THRESHOLD
    \/ g.buttonBrokenFlag[1]
    \/ g.buttonBrokenFlag[2]

\* the condition of line 280
Disarmed(g, snap) ==
    \/ snap.humidity > HUMIDITY_THRESHOLD
    \/ VoltageLow(snap.voltageRaw)
    \/ snap.temperature < TEMPERATURE_THRESHOLD
    \/ g.closeRelayRequested
    \/ g.buttonBrokenFlag[1]
    \/ g.buttonBrokenFlag[2]

\* lines 283-287 and 289-293
forceClose(g, valveId) ==
    IF g.valveOpen[valveId]
    THEN [closeValve(g, valveId) EXCEPT !.valveOpen[valveId] = FALSE]
    ELSE g

\* lines 295-301
relayOff(g) ==
    IF g.relayOn
    THEN Log([g EXCEPT !.relayOn = FALSE], Ev("relayOff", "", 0, "", FALSE))
    ELSE g

\* a faulty lines 282-301: the second valve is left as it is
shutDownFirstValve(g) == relayOff(forceClose(g, 1))

\* a faulty lines 282-301: the relay is cut before the valves are closed
shutDownRelayFirst(g) == forceClose(forceClose(relayOff(g), 1), 2)

\* lines 282-301
shutDown(g) == relayOff(forceClose(forceClose(g, 1), 2))

\* lines 305-311
relayOnIfOff(g) ==
    IF ~g.relayOn
    THEN Log([g EXCEPT !.relayOn = TRUE], Ev("relayOn", "", 0, "", TRUE))
    ELSE g

\* a faulty lines 314-330: the time between irrigations is left out of the
\* test of line 317
startWithoutInterval(g, i, currentMillis) ==
    IF /\ g.buttonPressed[i] \/ g.remoteIrrigationPending[i]
       /\ UGe(Sub32(currentMillis, g.irrigationStartTime[i]),
              EFFECTIVE_IRRIGATION_TIME(i))
       /\ ~g.valveOpen[i]
    THEN LET g1 == openValve([g EXCEPT !.irrigationStartTime[i] = currentMillis,
                                       !.valveOpen[i] = TRUE], i)
         IN  IF g1.remoteIrrigationPending[i]
             THEN sendIrrigationConfirmationSMS(
                      [g1 EXCEPT !.remoteIrrigationPending[i] = FALSE], i)
             ELSE g1
    ELSE g

\* a faulty lines 314-330: a remote request that cannot start now is dropped
startOrForget(g, i, currentMillis) ==
    IF /\ g.buttonPressed[i] \/ g.remoteIrrigationPending[i]
       /\ UGe(Sub32(currentMillis, g.irrigationStartTime[i]),
              EFFECTIVE_IRRIGATION_TIME(i) + TIME_BETWEEN_IRRIGATIONS(i))
       /\ ~g.valveOpen[i]
    THEN LET g1 == openValve([g EXCEPT !.irrigationStartTime[i] = currentMillis,
                                       !.valveOpen[i] = TRUE], i)
         IN  IF g1.remoteIrrigationPending[i]
             THEN sendIrrigationConfirmationSMS(
                      [g1 EXCEPT !.remoteIrrigationPending[i] = FALSE], i)
             ELSE g1
    ELSE [g EXCEPT !.remoteIrrigationPending[i] = FALSE]

\* lines 314-330 and 340-356
startIrrigation(g, i, currentMillis) ==
    IF /\ g.buttonPressed[i] \/ g.remoteIrrigationPending[i]
       /\ UGe(Sub32(currentMillis, g.irrigationStartTime[i]),
              EFFECTIVE_IRRIGATION_TIME(i) + TIME_BETWEEN_IRRIGATIONS(i))
       /\ ~g.valveOpen[i]
    THEN LET g1 == openValve([g EXCEPT !.irrigationStartTime[i] = currentMillis,
                                       !.valveOpen[i] = TRUE], i)
         IN  IF g1.remoteIrrigationPending[i]
             THEN sendIrrigationConfirmationSMS(
                      [g1 EXCEPT !.remoteIrrigationPending[i] = FALSE], i)
             ELSE g1
    ELSE g

\* a faulty lines 332-337: the valve stays open while irrigation is requested
stopUnlessRequested(g, i, currentMillis) ==
    IF /\ UGe(Sub32(currentMillis, g.irrigationStartTime[i]), EFFECTIVE_IRRIGATION_TIME(i))
       /\ g.valveOpen[i]
       /\ ~(g.buttonPressed[i] \/ g.remoteIrrigationPending[i])
    THEN closeValve([g EXCEPT !.valveOpen[i] = FALSE], i)
    ELSE g

\* lines 332-337 and 358-363
stopIrrigation(g, i, currentMillis) ==
    IF /\ UGe(Sub32(currentMillis, g.irrigationStartTime[i]), EFFECTIVE_IRRIGATION_TIME(i))
       /\ g.valveOpen[i]
    THEN closeValve([g EXCEPT !.valveOpen[i] = FALSE], i)
    ELSE g

\* lines 313-337 and 339-363
circuit(g, i, currentMillis) ==
    stopIrrigation(startIrrigation(g, i, currentMillis), i, currentMillis)

\* a faulty lines 305-363: the relay is energised after the circuits have
\* been advanced
irrigateThenRelay(g, currentMillis) ==
    relayOnIfOff(circuit(circuit(g, 1, currentMillis), 2, currentMillis))

\* lines 305-363
irrigate(g, currentMillis) ==
    circuit(circuit(relayOnIfOff(g), 1, currentMillis), 2, currentMillis)

\* lines 279-364
safetyInterlock(g, snap, currentMillis) ==
    IF Disarmed(g, snap)
    THEN shutDown([g EXCEPT !.armed = FALSE])
    ELSE irrigate([g EXCEPT !.armed = TRUE], currentMillis)

\* lines 204-364
loopTick(g, snap, pinLow, console, pulses, elapsed, currentMillis) ==
    LET g1 == sampleVolume(g, console, pulses, elapsed)
        g2 == persistVolume(g1, currentMillis)
        g3 == lowVoltageAlert(g2, snap)
        g4 == readButton(g3, 1, pinLow[1])
        g5 == readButton(g4, 2, pinLow[2])
        g6 == reportMeasurements(g5)
    IN  safetyInterlock(g6, snap, currentMillis)

----------------------------------------------------------------------------
(* State, initial state and actions.                                       *)

NoTick == [ran |-> FALSE, snap |-> Nominal, armed |-> FALSE, reset |-> FALSE,
           buttonPressed |-> [i \in Circuits |-> FALSE], at |-> 0,
           startedAt |-> [i \in Circuits |-> 0],
           pinLow |-> [i \in Circuits |-> FALSE],
           readAt |-> [i \in Circuits |-> << >>]]

\* what the EEPROM can hold at the first boot: erased, or a stored volume
EepromAtBoot == {NaN, 5}

\* the globals after setup(), lines 95-183, with e the EEPROM's content
setup(e) ==
    [ pc |-> "loop",
      clock |-> InitReads * 100,
      valveOpen |-> [i \in Circuits |-> FALSE],
      relayOn |-> FALSE,
      prevMeasurementTime |-> 0,
      irrigationStartTime |-> [i \in Circuits |-> 0],
      pulsesCount |-> 0,
      totalWaterVolume |-> IF e = NaN THEN 0 ELSE e,
      eeprom |-> e,
      senderNum |-> PHONE_NUMBER,
      message |-> "",
      sendMeasurements |-> FALSE,
      prevEepromWriteTime |-> 0,
      lowVoltageSmsSent |-> FALSE,
      remoteIrrigationPending |-> [i \in Circuits |-> FALSE],
      wasButtonPressed |-> [i \in Circuits |-> FALSE],
      buttonPressedStartTime |-> [i \in Circuits |-> 0],
      buttonBrokenFlag |-> [i \in Circuits |-> FALSE],
      closeRelayRequested |-> FALSE,
      dt |-> 0,
      pulsesRead |-> 0,
      inflight |-> "",
      smsCount |-> 0,
      pulsesSeen |-> 0,
      pulsesUsed |-> 0,
      requester |-> [i \in Circuits |-> ""],
      heldSince |-> [i \in Circuits |-> << >>],
      tick |-> NoTick,
      events |-> << >> ]

\* the program is in the state s that setup() left
Booted(s) ==
    /\ pc = s.pc
    /\ clock = s.clock
    /\ valveOpen = s.valveOpen
    /\ relayOn = s.relayOn
    /\ prevMeasurementTime = s.prevMeasurementTime
    /\ irrigationStartTime = s.irrigationStartTime
    /\ pulsesCount = s.pulsesCount
    /\ totalWaterVolume = s.totalWaterVolume
    /\ eeprom = s.eeprom
    /\ senderNum = s.senderNum
    /\ message = s.message
    /\ sendMeasurements = s.sendMeasurements
    /\ prevEepromWriteTime = s.prevEepromWriteTime
    /\ lowVoltageSmsSent = s.lowVoltageSmsSent
    /\ remoteIrrigationPending = s.remoteIrrigationPending
    /\ wasButtonPressed = s.wasButtonPressed
    /\ buttonPressedStartTime = s.buttonPressedStartTime
    /\ buttonBrokenFlag = s.buttonBrokenFlag
    /\ closeRelayRequested = s.closeRelayRequested
    /\ dt = s.dt
    /\ pulsesRead = s.pulsesRead
    /\ inflight = s.inflight
    /\ smsCount = s.smsCount
    /\ pulsesSeen = s.pulsesSeen
    /\ pulsesUsed = s.pulsesUsed
    /\ requester = s.requester
    /\ heldSince = s.heldSince
    /\ tick = s.tick
    /\ events = s.events

\* the program enters the state s that setup() leaves
Boot(s) ==
    /\ pc' = s.pc
    /\ clock' = s.clock
    /\ valveOpen' = s.valveOpen
    /\ relayOn' = s.relayOn
    /\ prevMeasurementTime' = s.prevMeasurementTime
    /\ irrigationStartTime' = s.irrigationStartTime
    /\ pulsesCount' = s.pulsesCount
    /\ totalWaterVolume' = s.totalWaterVolume
    /\ eeprom' = s.eeprom
    /\ senderNum' = s.senderNum
    /\ message' = s.message
    /\ sendMeasurements' = s.sendMeasurements
    /\ prevEepromWriteTime' = s.prevEepromWriteTime
    /\ lowVoltageSmsSent' = s.lowVoltageSmsSent
    /\ remoteIrrigationPending' = s.remoteIrrigationPending
    /\ wasButtonPressed' = s.wasButtonPressed
    /\ buttonPressedStartTime' = s.buttonPressedStartTime
    /\ buttonBrokenFlag' = s.buttonBrokenFlag
    /\ closeRelayRequested' = s.closeRelayRequested
    /\ dt' = s.dt
    /\ pulsesRead' = s.pulsesRead
    /\ inflight' = s.inflight
    /\ smsCount' = s.smsCount
    /\ pulsesSeen' = s.pulsesSeen
    /\ pulsesUsed' = s.pulsesUsed
    /\ requester' = s.requester
    /\ heldSince' = s.heldSince
    /\ tick' = s.tick
    /\ events' = s.events

InitWith(contents) == \E e \in contents : boots = 0 /\ Booted(setup(e))

Init == InitWith(EepromAtBoot)

\* the globals a handler leaves
Commit(g) ==
    /\ valveOpen' = g.valveOpen
    /\ relayOn' = g.relayOn
    /\ irrigationStartTime' = g.irrigationStartTime
    /\ totalWaterVolume' = g.totalWaterVolume
    /\ eeprom' = g.eeprom
    /\ senderNum' = g.senderNum
    /\ message' = g.message
    /\ sendMeasurements' = g.sendMeasurements
    /\ prevEepromWriteTime' = g.prevEepromWriteTime
    /\ lowVoltageSmsSent' = g.lowVoltageSmsSent
    /\ remoteIrrigationPending' = g.remoteIrrigationPending
    /\ wasButtonPressed' = g.wasButtonPressed
    /\ buttonPressedStartTime' = g.buttonPressedStartTime
    /\ buttonBrokenFlag' = g.buttonBrokenFlag
    /\ closeRelayRequested' = g.closeRelayRequested
    /\ inflight' = g.inflight
    /\ requester' = g.requester
    /\ heldSince' = g.heldSince
    /\ clock' = g.now
    /\ events' = g.events

\* what can lie before bufferData when f is read: it matters only when a
\* colon is among the first three bytes of f
PreChoices(f) ==
    IF \E k \in 1..3 : k <= Len(f) /\ SubSeq(f, k, k) = ":"
    THEN PreBytes
    ELSE {"###"}

\* when the frame in flight reaches the serial line during a tick (the
\* number of the sendSMS call whose read finds it, 0 for after the last
\* read of the tick), and what then lies before bufferData
Arrivals(slots) ==
    IF inflight = ""
    THEN {<<0, "###">>}
    ELSE {<<0, "###">>} \cup (slots \X PreChoices(inflight))

\* the read of line 188 finds the frame in flight, if there is one
Waiting ==
    IF inflight = ""
    THEN {<<0, "###">>}
    ELSE {1} \X PreChoices(inflight)

\* the least multiple of grid that is at least t
RoundUp(t, grid) == ((t + grid - 1) \div grid) * grid

\* lines 188-202: the modem read, the time measurement, the test of line
\* 197 and, in a tick, the read of pulsesCount.  The iterations in which no
\* byte is waiting and dt < SAMPLE_TIME change nothing; the one modelled
\* starts d or more after the last handler ended (delay(100) of line 366),
\* at the next multiple of grid, and not later than last * grid after boot.
LoopIter(delays, grid, last) ==
    /\ pc = "loop"
    /\ \E d \in delays, a \in Waiting :
          /\ RoundUp(clock + d, grid) <= last * grid
          /\ \E g \in { readSIM800Data(
                          [Globals(RoundUp(clock + d, grid), 0, a[2])
                              EXCEPT !.inflight = IF a[1] = 1 THEN "" ELSE @],
                          IF a[1] = 1 THEN inflight ELSE "") } :
                LET currentMillis == g.now
                    elapsed == ToInt(Sub32(currentMillis, prevMeasurementTime))
                IN  /\ Commit(g)
                    /\ IF elapsed >= SAMPLE_TIME \/ currentMillis = 0
                       THEN /\ prevMeasurementTime' = currentMillis
                            /\ dt' = elapsed
                            /\ pulsesRead' = pulsesCount
                            /\ pc' = "reset"
                       ELSE /\ pc' = "loop"
                            /\ UNCHANGED << prevMeasurementTime, dt, pulsesRead >>
    /\ tick' = NoTick
    /\ UNCHANGED << boots, pulsesCount, smsCount, pulsesSeen, pulsesUsed >>

\* lines 204-366: the reset of pulsesCount and the rest of the tick, with
\* the sensor readings drawn from snaps, the console byte from consoles and
\* the button inputs from pins
Tick(snaps, consoles, pins) ==
    /\ pc = "reset"
    /\ \E snap \in snaps, pinLow \in pins,
          console \in consoles, a \in Arrivals(1..MaxSlot) :
          \E g \in { loopTick(Globals(clock, a[1], a[2]), snap, pinLow, console,
                              pulsesRead, dt, prevMeasurementTime) } :
              /\ g.slot = 0
              /\ Commit([g EXCEPT !.events = << Ev("tick", "", 0, "", relayOn) >> \o @])
              /\ tick' = [ran |-> TRUE, snap |-> snap, armed |-> g.armed,
                          reset |-> g.reset, buttonPressed |-> g.buttonPressed,
                          at |-> prevMeasurementTime,
                          startedAt |-> irrigationStartTime,
                          pinLow |-> g.pinLow, readAt |-> g.readAt]
    /\ pulsesCount' = 0
    /\ pulsesUsed' = pulsesUsed + pulsesRead
    /\ pc' = "loop"
    /\ dt' = 0
    /\ pulsesRead' = 0
    /\ UNCHANGED << boots, prevMeasurementTime, smsCount, pulsesSeen >>

\* lines 483-486: the flow-sensor interrupt, at any point of loop()
countPulses ==
    /\ pulsesSeen < MaxPulses
    /\ pulsesCount' = (pulsesCount + 1) % 65536
    /\ pulsesSeen' = pulsesSeen + 1
    /\ UNCHANGED << pc, clock, boots, valveOpen, relayOn, prevMeasurementTime,
                    irrigationStartTime, totalWaterVolume, eeprom, senderNum,
                    message, sendMeasurements, prevEepromWriteTime,
                    lowVoltageSmsSent, remoteIrrigationPending, wasButtonPressed,
                    buttonPressedStartTime, buttonBrokenFlag, closeRelayRequested,
                    dt, pulsesRead, inflight, smsCount, pulsesUsed, requester,
                    heldSince, tick, events >>

\* the network hands the modem one of frames, at most limit of them per
\* power cycle; it reaches the serial line later
SmsArrives(frames, limit) ==
    /\ inflight = ""
    /\ smsCount < limit
    /\ \E f \in frames : inflight' = f
    /\ smsCount' = smsCount + 1
    /\ UNCHANGED << pc, clock, boots, valveOpen, relayOn, prevMeasurementTime,
                    irrigationStartTime, pulsesCount, totalWaterVolume, eeprom,
                    senderNum, message, sendMeasurements, prevEepromWriteTime,
                    lowVoltageSmsSent, remoteIrrigationPending, wasButtonPressed,
                    buttonPressedStartTime, buttonBrokenFlag, closeRelayRequested,
                    dt, pulsesRead, pulsesSeen, pulsesUsed, requester,
                    heldSince, tick, events >>

\* The program is idle: it is armed with the relay on, every valve is
\* closed, no button was pressed at the last tick, and nothing is pending or
\* in flight.  A tick that then finds the readings inside the envelope, the
\* buttons released, no pulse counted, no byte on the console and no
\* periodic write due changes prevMeasurementTime only.
Idle ==
    /\ pc = "loop" /\ inflight = "" /\ pulsesCount = 0
    /\ relayOn /\ ~closeRelayRequested /\ ~sendMeasurements
    /\ \A i \in Circuits :
          /\ ~valveOpen[i] /\ ~remoteIrrigationPending[i]
          /\ ~buttonBrokenFlag[i] /\ ~wasButtonPressed[i]
          /\ heldSince[i] = << >>

\* lines 185-367, many times over: the idle program runs ticks that change
\* nothing, SAMPLE_TIME apart, up to the last tick that is m ticks or more
\* before the next periodic write is due, for an m drawn from margins.  The
\* log of these ticks is not kept.
Sleep(margins) ==
    /\ Idle
    /\ \E m \in margins :
          LET first == RoundUp(clock + LoopDelay, SAMPLE_TIME \div 2)
              due == Add32(prevEepromWriteTime, PersistInterval)
              room == due - m * SAMPLE_TIME - first
              last == first + (room \div SAMPLE_TIME) * SAMPLE_TIME
          IN  /\ first - prevMeasurementTime >= SAMPLE_TIME
              /\ room >= SAMPLE_TIME
              /\ clock' = last
              /\ prevMeasurementTime' = last
    /\ tick' = NoTick
    /\ events' = << >>
    /\ UNCHANGED << pc, boots, valveOpen, relayOn, irrigationStartTime,
                    pulsesCount, totalWaterVolume, eeprom, senderNum, message,
                    sendMeasurements, prevEepromWriteTime, lowVoltageSmsSent,
                    remoteIrrigationPending, wasButtonPressed,
                    buttonPressedStartTime, buttonBrokenFlag,
                    closeRelayRequested, dt, pulsesRead, inflight, smsCount,
                    pulsesSeen, pulsesUsed, requester, heldSince >>

\* the next iteration of loop() falls within grid steps of ShortRun after the
\* last periodic write (or boot), or from as many before the next is due
NearWrite ==
    LET since == Sub32(RoundUp(clock + LoopDelay, SAMPLE_TIME \div 2),
                       prevEepromWriteTime)
    IN  \/ since <= ShortRun * (SAMPLE_TIME \div 2)
        \/ since >= PersistInterval - ShortRun * (SAMPLE_TIME \div 2)

\* millis() at the last periodic write before it wraps: the program that
\* booted with millis() = 0 has written every PersistInterval, 49 times in
\* the 2^32 ms the word holds (49 * 86400000 = 2^32 - 61367296)
LastWriteBeforeWrap ==
    Add32(Add32(24 * PersistInterval, 24 * PersistInterval), PersistInterval)

\* The globals of the program that was booted with an erased EEPROM and has
\* run since for almost 2^32 ms, at the end of a tick lead ms before
\* millis() wraps to 0: armed and idle, the relay on, both circuits last
\* started a minute before the tick, the volume still zero and so written
\* to the EEPROM.  A time at or after 2^31 ms is the negative word with the
\* same bits, which is the time counted from the wrap.
nearWrap(lead) ==
    [setup(NaN) EXCEPT !.clock = -lead,
                       !.prevMeasurementTime = -lead,
                       !.relayOn = TRUE,
                       !.irrigationStartTime = [i \in Circuits |-> -lead - 60000],
                       !.prevEepromWriteTime = LastWriteBeforeWrap,
                       !.eeprom = 0]

\* the watch begins on either phase of the half-second grid
InitNearWrap ==
    \E half \in {0, 1} :
        boots = 0 /\ Booted(nearWrap(WrapLead * SAMPLE_TIME + half * (SAMPLE_TIME \div 2)))

\* the next iteration of loop() falls before millis() wraps or within
\* LongRun grid steps after it
AroundWrap ==
    RoundUp(clock + LoopDelay, SAMPLE_TIME \div 2) <= LongRun * (SAMPLE_TIME \div 2)

\* a power cycle: the globals are initialised again and setup() runs, lines
\* 95-183; the EEPROM keeps its content
Restart ==
    /\ boots < MaxBoots
    /\ boots' = boots + 1
    /\ Boot(setup(eeprom))

----------------------------------------------------------------------------
(* Specifications: the program in different environments.                  *)

\* everything at once
Next ==
    \/ LoopIter({LoopDelay}, SAMPLE_TIME, LongRun)
    \/ Tick(Snapshots, {"", "r"}, [Circuits -> BOOLEAN])
    \/ countPulses
    \/ SmsArrives(Frames, MaxFrames)
    \/ Restart

Spec == Init /\ [][Next]_vars

\* The safety interlock: every sensor reading, both buttons pressed and
\* released together, and the close command; the flow sensor is silent,
\* nobody types on the console, the power stays on.
NextSafety ==
    \/ LoopIter({LoopDelay}, SAMPLE_TIME, LongRun)
    \/ Tick({AtLimits, Wet, Cold, LowBattery}, {""}, {Released, BothPressed})
    \/ SmsArrives({CloseFrame}, MaxMessages)

SpecSafety == InitWith({NaN}) /\ [][NextSafety]_vars

\* Valve timing and remote requests: the sensors arm and disarm the system,
\* the first button is pressed and released, requests arrive for both
\* valves; the flow sensor is silent, nobody types on the console, the
\* power stays on.
NextValves ==
    \/ LoopIter({LoopDelay}, SAMPLE_TIME, LongRun)
    \/ Tick({AtLimits, Wet}, {""}, {Released, FirstPressed})
    \/ SmsArrives({CommandFrame, OtherFrame}, MaxMessages)

SpecValves == InitWith({NaN}) /\ [][NextValves]_vars

\* The buttons, pressed and released freely: the sensors arm and disarm the
\* system, no frame arrives, the flow sensor is silent, nobody types on the
\* console, the power stays on.
NextButtons ==
    \/ LoopIter({LoopDelay}, SAMPLE_TIME, LongRun)
    \/ Tick({AtLimits, Wet}, {""}, [Circuits -> BOOLEAN])

SpecButtons == InitWith({NaN}) /\ [][NextButtons]_vars

\* The parser and the dispatch, watched every half second: no button is
\* pressed, the flow sensor is silent, the power stays on.
NextParser ==
    \/ LoopIter({LoopDelay}, SAMPLE_TIME \div 2, ShortRun)
    \/ Tick({AtLimits, Wet}, {""}, {Released})
    \/ SmsArrives(Frames, MaxFrames)

SpecParser == InitWith({NaN}) /\ [][NextParser]_vars

\* The totalizer and its durable copy, watched every second: no frame
\* arrives and no button is pressed.
NextTotalizer ==
    \/ LoopIter({LoopDelay}, SAMPLE_TIME, ShortRun)
    \/ Tick({AtLimits}, {"", "r"}, {Released})
    \/ countPulses
    \/ Restart

SpecTotalizer == InitWith(EepromAtBoot) /\ [][NextTotalizer]_vars

\* Remote requests from two senders, watched every second: the readings
\* stay inside the envelope, the first button is pressed and released, the
\* flow sensor is silent, nobody types on the console, the power stays on.
NextRequests ==
    \/ LoopIter({LoopDelay}, SAMPLE_TIME, LongRun)
    \/ Tick({AtLimits}, {""}, {Released, FirstPressed})
    \/ SmsArrives({CommandFrame, OtherFrame}, MaxFrames)

SpecRequests == InitWith({NaN}) /\ [][NextRequests]_vars

\* The periodic EEPROM write, watched every half second around the times it
\* is due, for MaxDays persistence intervals: in between the program sleeps;
\* the readings stay inside the envelope, no button is pressed, no frame
\* arrives, the power stays on.
NextPersist ==
    \/ NearWrite /\ LoopIter({LoopDelay}, SAMPLE_TIME \div 2,
                              MaxDays * (PersistInterval \div (SAMPLE_TIME \div 2)) + ShortRun)
    \/ Tick({AtLimits}, {"", "r"}, {Released})
    \/ countPulses
    \/ Sleep(1..MaxMargin)

SpecPersist == InitWith(EepromAtBoot) /\ [][NextPersist]_vars

\* The wrap of millis(), watched every half second from WrapLead seconds
\* before it to the first periodic write after it: around the wrap the
\* buttons are pressed and released; then the program sleeps until the
\* write is due.  The readings stay inside the envelope, no frame arrives,
\* the flow sensor is silent, the power stays on.
NextWrap ==
    \/ (AroundWrap \/ NearWrite)
          /\ LoopIter({LoopDelay}, SAMPLE_TIME \div 2,
                      PersistInterval \div (SAMPLE_TIME \div 2))
    \/ Tick({AtLimits}, {""},
            IF AroundWrap THEN {Released, FirstPressed, BothPressed} ELSE {Released})
    \/ ~AroundWrap /\ Sleep(1..MaxMargin)

SpecWrap == InitNearWrap /\ [][NextWrap]_vars

\* The close command among irrigation requests, watched every second: a
\* request for valve 1 and a relay closure arrive, in any order and at any
\* point of loop(), both buttons are pressed and released together; the
\* readings stay inside the envelope, the flow sensor is silent, nobody
\* types on the console, the power stays on.
NextClosure ==
    \/ LoopIter({LoopDelay}, SAMPLE_TIME, LongRun)
    \/ Tick({AtLimits}, {""}, {Released, BothPressed})
    \/ SmsArrives({CommandFrame, CloseFrame}, MaxFrames)

SpecClosure == InitWith({NaN}) /\ [][NextClosure]_vars

----------------------------------------------------------------------------
(* Properties.  tick and events describe the handler that ran last: after  *)
(* a sampling tick tick.ran holds and events is the log of that tick.      *)

\* the last handler performed e on circuit id
Did(e, id) == \E k \in DOMAIN events : events[k].e = e /\ events[k].id = id

\* the last handler sent an SMS of the given kind about circuit id
Sent(kind, id) ==
    \E k \in DOMAIN events :
        events[k].e = "sms" /\ events[k].k = kind /\ events[k].id = id

\* the condition of line 280 as the spec words it, on the readings of the
\* last tick and the flags the tick left
OutsideEnvelope ==
    \/ tick.snap.humidity > HUMIDITY_THRESHOLD
    \/ tick.snap.temperature < TEMPERATURE_THRESHOLD
    \/ VoltageLow(tick.snap.voltageRaw)
    \/ \E i \in Circuits : buttonBrokenFlag[i]

\* C1: after every sampling tick whose safety evaluation was not armed
\* (humidity over its threshold, temperature or voltage under theirs, a
\* relay closure requested, a button broken) every valve is closed and the
\* relay is off, and every valve close of the tick precedes the relay cut.
C1_DisarmedTickShutsDown ==
    (tick.ran /\ (~tick.armed \/ OutsideEnvelope)) =>
        /\ ~tick.armed
        /\ \A i \in Circuits : ~valveOpen[i]
        /\ ~relayOn
        /\ \A j, k \in DOMAIN events :
              (events[j].e = "close" /\ events[k].e = "relayOff") => j < k

\* a disarmed tick found a valve open: it closed it and then cut the relay
C1_Witness ==
    /\ tick.ran /\ ~tick.armed
    /\ \E i \in Circuits : Did("close", i)
    /\ Did("relayOff", 0)
    /\ VoltageLow(tick.snap.voltageRaw)

\* C2: every call of closeValve, by the expiry of the irrigation time or by
\* the safety interlock, happens while relayOn is true.
C2_CloseOnlyWithRelayOn ==
    \A k \in DOMAIN events : events[k].e = "close" => events[k].relay

\* an armed tick closed a valve whose irrigation time had expired
C2_Witness ==
    /\ tick.ran /\ tick.armed
    /\ \E i \in Circuits : Did("close", i) /\ relayOn

\* C3: once buttonBrokenFlag of a circuit is set it stays set while the
\* power is on, the pressed signal of that circuit is false at the tick that
\* sets it and at every later tick, and no later tick reads the button's pin.
C3_BrokenButtonStaysIgnored ==
    [][\A i \in Circuits :
          /\ (buttonBrokenFlag[i] /\ boots' = boots) => buttonBrokenFlag'[i]
          /\ (buttonBrokenFlag'[i] /\ tick'.ran) => ~tick'.buttonPressed[i]
          /\ (buttonBrokenFlag[i] /\ pc = "reset") => ~Did("digitalRead", i)'
      ]_vars

\* a tick after the one that found a button broken: the button is not read
\* and no alert is sent again, while the other button is still read
C3_Witness ==
    /\ tick.ran
    /\ \E i, j \in Circuits :
          /\ buttonBrokenFlag[i] /\ ~Did("digitalRead", i) /\ ~Sent("broken", i)
          /\ ~buttonBrokenFlag[j] /\ Did("digitalRead", j)

\* C4: every pulse is counted in exactly one sample: whenever loop() is
\* between two ticks, the pulse counts the ticks have read and the pulses
\* still in pulsesCount add up to the interrupts that have run.
C4_EveryPulseCountedOnce ==
    pc = "loop" => pulsesUsed + pulsesCount = pulsesSeen

\* C5: a tick that starts a circuit leaves irrigationStartTime at the tick's
\* clock value and the valve open; no valve is open after a tick whose clock
\* value is EFFECTIVE_IRRIGATION_TIME or more past irrigationStartTime,
\* whether or not irrigation is still requested; and no tick opens a valve
\* after closing it.
C5_ValveClosesWhenTimeIsUp ==
    tick.ran =>
        \A i \in Circuits :
            /\ Did("open", i) => (irrigationStartTime[i] = tick.at /\ valveOpen[i])
            /\ valveOpen[i] =>
                  ~UGe(Sub32(tick.at, irrigationStartTime[i]),
                       EFFECTIVE_IRRIGATION_TIME(i))
            /\ \A j, k \in DOMAIN events :
                  (/\ events[j].e = "close" /\ events[j].id = i
                   /\ events[k].e = "open" /\ events[k].id = i) => k < j

\* a tick closed a valve whose time was up while its button was still pressed
C5_Witness ==
    /\ tick.ran /\ tick.armed
    /\ \E i \in Circuits :
          /\ tick.buttonPressed[i] /\ Did("close", i) /\ ~valveOpen[i]
          /\ UGe(Sub32(tick.at, irrigationStartTime[i]), EFFECTIVE_IRRIGATION_TIME(i))

\* C6: a tick starts a circuit only when its clock value is at least
\* EFFECTIVE_IRRIGATION_TIME + TIME_BETWEEN_IRRIGATIONS past the start time
\* the circuit had before the tick (its previous start), whether the system
\* was disarmed in between or not.
C6_StartsKeepTheirDistance ==
    tick.ran =>
        \A i \in Circuits :
            Did("open", i) =>
                UGe(Sub32(tick.at, tick.startedAt[i]),
                    EFFECTIVE_IRRIGATION_TIME(i) + TIME_BETWEEN_IRRIGATIONS(i))

\* a circuit started for the second time
C6_Witness ==
    /\ tick.ran
    /\ \E i \in Circuits : Did("open", i) /\ tick.startedAt[i] # 0

\* C7: a pending remote request stays pending until a tick starts its
\* circuit, and an armed tick that finds the request pending, the valve
\* closed and the previous start EFFECTIVE_IRRIGATION_TIME +
\* TIME_BETWEEN_IRRIGATIONS or more ago starts the circuit, confirms it and
\* clears the request.
C7_RemoteRequestIsKept ==
    [][\A i \in Circuits :
          /\ remoteIrrigationPending[i] =>
                \/ remoteIrrigationPending'[i]
                \/ pc = "reset" /\ Did("open", i)'
          /\ (/\ pc = "reset" /\ remoteIrrigationPending[i] /\ tick'.armed
              /\ ~valveOpen[i]
              /\ UGe(Sub32(prevMeasurementTime, irrigationStartTime[i]),
                     EFFECTIVE_IRRIGATION_TIME(i) + TIME_BETWEEN_IRRIGATIONS(i)))
             => /\ Did("open", i)'
                /\ Sent("confirm", i)'
                /\ remoteIrrigationPending'[i] => Did("dispatch", 0)'
      ]_vars

\* a tick went by with a circuit running and a request for it pending: the
\* request is still pending
C7_Witness ==
    /\ tick.ran /\ tick.armed
    /\ \E i \in Circuits :
          /\ remoteIrrigationPending[i] /\ valveOpen[i]
          /\ ~Did("open", i) /\ ~Did("dispatch", 0)

\* the step of loop() that reads the frame f waiting on the serial line
LoopReads(f) == pc = "loop" /\ inflight = f /\ inflight' = ""

\* the handler sent no SMS
Silent == \A k \in DOMAIN events : events[k].e # "sms"

\* C8: reading the example frame of line 6 (body RIEGO,MEASUREMENTS) yields
\* the sender "+34605521505" and the header's remainder and the body as
\* message; the dispatch runs and sets no flag and sends nothing, the body
\* holding none of the command words.  Reading the same frame with the body
\* RIEGO1,ESTADO yields the same sender and sets remoteIrrigationPending of
\* valve 1 and sendMeasurements, and nothing else.
C8_ExampleFrameParsed ==
    [][/\ LoopReads(ExampleFrame) =>
             /\ senderNum' = "+34605521505"
             /\ message' = "\",\"\",\"22/02/04,01:47:51+04\" RIEGO,MEASUREMENTS"
             /\ Did("dispatch", 0)' /\ Silent'
             /\ sendMeasurements' = sendMeasurements
             /\ remoteIrrigationPending' = remoteIrrigationPending
             /\ closeRelayRequested' = closeRelayRequested
       /\ LoopReads(CommandFrame) =>
             /\ senderNum' = "+34605521505"
             /\ message' = "\",\"\",\"22/02/04,01:47:51+04\" RIEGO1,ESTADO"
             /\ Did("dispatch", 0)' /\ Silent'
             /\ sendMeasurements'
             /\ remoteIrrigationPending'[1]
             /\ remoteIrrigationPending'[2] = remoteIrrigationPending[2]
             /\ closeRelayRequested' = closeRelayRequested
      ]_vars

\* loop() has read the example frame and dispatched it, and no request is
\* pending
C8_Witness ==
    /\ events # << >> /\ events[1].e = "rx" /\ events[1].s = ExampleFrame
    /\ Did("dispatch", 0)
    /\ senderNum = "+34605521505"
    /\ ~sendMeasurements /\ \A i \in Circuits : ~remoteIrrigationPending[i]

\* C8 as the spec words it: reading the example frame yields the sender and
\* sets sendMeasurements and the irrigation request of a valve.
C8_ExampleFrameSetsFlags ==
    [][LoopReads(ExampleFrame) =>
          /\ senderNum' = "+34605521505"
          /\ sendMeasurements'
          /\ \E i \in Circuits : remoteIrrigationPending'[i]
      ]_vars

\* C9: reading a frame cut before the end of the sender's number dispatches
\* nothing: no flag changes and no SMS is sent, whatever was read before.
C9_CutFrameChangesNothing ==
    [][LoopReads(CutFrame) =>
          /\ Silent'
          /\ sendMeasurements' = sendMeasurements
          /\ remoteIrrigationPending' = remoteIrrigationPending
          /\ closeRelayRequested' = closeRelayRequested
      ]_vars

\* C10: the tick that reads 'r' from the console leaves totalWaterVolume
\* and the EEPROM at zero, and a restart that finds the EEPROM so cleared
\* starts with totalWaterVolume zero.
C10_ResetReachesTheEeprom ==
    [][/\ (tick'.ran /\ tick'.reset) => (totalWaterVolume' = 0 /\ eeprom' = 0)
       /\ (boots' # boots /\ eeprom = 0) => (totalWaterVolume' = 0 /\ eeprom' = 0)
      ]_vars

\* the program has restarted with the EEPROM cleared by a reset
C10_Witness ==
    /\ boots > 0 /\ ~tick.ran /\ prevMeasurementTime = 0
    /\ eeprom = 0 /\ totalWaterVolume = 0

\* the step is one of the program (an iteration of loop(), a tick or a
\* restart), not one of its environment: events' is the log of that step
ProgramStep == smsCount' = smsCount /\ pulsesSeen' = pulsesSeen

\* the step is a sampling tick
TickStep == pc = "reset" /\ tick'.ran

C12_ArmedOnlyStrictlyInside ==
    tick.ran =>
        (tick.armed <=>
            /\ tick.snap.humidity < HUMIDITY_THRESHOLD
            /\ tick.snap.temperature > TEMPERATURE_THRESHOLD
            /\ tick.snap.voltageRaw * 501 * 124 > VOLTAGE_THRESHOLD * 1023 * 100 * 100
            /\ ~closeRelayRequested
            /\ \A i \in Circuits : ~buttonBrokenFlag[i])

\* the step sets a flag that the dispatch of a command sets; the periodic
\* EEPROM write of line 225 sets sendMeasurements too
RaisesFlag ==
    \/ ~sendMeasurements /\ sendMeasurements' /\ ~Did("put", 0)'
    \/ ~closeRelayRequested /\ closeRelayRequested'
    \/ \E i \in Circuits : ~remoteIrrigationPending[i] /\ remoteIrrigationPending'[i]

\* C13: sendMeasurements (but for the periodic EEPROM write), the
\* remoteIrrigationPending flags and closeRelayRequested are set, and
\* senderNum changes, only in a handler that reads the modem; within a sampling tick the modem is read only
\* inside sendSMS, right after a message was handed to it, never during a
\* valve actuation pulse; and a frame that reaches the serial line while a
\* tick is sending is read by that tick, in the middle of it.
C13_ParsedOnlyWhileSending ==
    [][/\ RaisesFlag => Did("dispatch", 0)'
       /\ senderNum' # senderNum => Did("rx", 0)'
       /\ TickStep =>
             \A k \in DOMAIN events' :
                 events'[k].e = "rx" => events'[k - 1].e = "sms"
       /\ (TickStep /\ inflight # "" /\ inflight' = "") => Did("rx", 0)'
      ]_vars

\* a tick read a frame while it was sending and dispatched it: a request
\* became pending in the middle of the tick
C13_Witness ==
    /\ tick.ran
    /\ \E k \in DOMAIN events :
          /\ events[k].e = "rx" /\ events[k - 1].e = "sms"
          /\ events[k + 2].e = "dispatch"
    /\ \E i \in Circuits : remoteIrrigationPending[i]

\* C13 as the spec words it: the flags set by dispatch and senderNum change
\* only in the read step at the start of a loop iteration, never in the
\* middle of a sampling tick.
C13_ParsedOnlyAtLoopStart ==
    [][(RaisesFlag \/ senderNum' # senderNum) => pc = "loop"]_vars

\* C14: a status report sent in a tick is sent after the tick's safety
\* evaluation and circuit advancement: the valves and the relay it shows are
\* those the tick leaves.
C14_ReportShowsTickResult ==
    tick.ran =>
        \A k \in DOMAIN events :
            (events[k].e = "sms" /\ events[k].k = "status") =>
                /\ events[k].relay = relayOn
                /\ events[k].id = (IF valveOpen[1] THEN 1 ELSE 0)
                                  + (IF valveOpen[2] THEN 2 ELSE 0)

\* C15: whatever batch is read, every index the parser uses stays inside
\* its array: the indices of bufferData read and written stay within
\* 0..126, the sender takes at most 13 characters and the message at most
\* 99.
C15_IndicesStayInside ==
    /\ \A k \in DOMAIN events :
          events[k].e = "scan" =>
              /\ events[k].id >= 0
              /\ Len(events[k].s) <= BUFFER_SIZE
    /\ Len(senderNum) <= 13
    /\ Len(message) <= 99

\* C16: a circuit that has never started (irrigationStartTime still 0)
\* starts at the first armed tick at which its button reads pressed, not
\* being broken, or its remote request is pending, however short the time
\* since boot.
C16_FirstStartIsImmediate ==
    [][\A i \in Circuits :
          (/\ TickStep /\ irrigationStartTime[i] = 0 /\ tick'.armed
           /\ tick'.buttonPressed[i] \/ remoteIrrigationPending[i])
          => Did("open", i)' /\ valveOpen'[i]
      ]_vars

\* the places in the log of an irrigation confirmation for circuit i
Confirmations(log, i) ==
    {k \in DOMAIN log : log[k].e = "sms" /\ log[k].k = "confirm" /\ log[k].id = i}

\* C17: a tick that starts a circuit whose remote request is pending sends
\* exactly one irrigation confirmation, to the sender of the message that
\* raised the request, whatever frames were parsed since; a tick that
\* starts a circuit by its button alone sends none.
C17_ConfirmationGoesToRequester ==
    [][TickStep =>
          \A i \in Circuits :
              /\ \A k \in Confirmations(events', i) :
                    /\ Did("open", i)'
                    /\ events'[k - 1].e = "requestOf"
                    /\ events'[k].s = events'[k - 1].s
              /\ Cardinality(Confirmations(events', i)) <= 1
              /\ (Did("open", i)' /\ remoteIrrigationPending[i])
                    => Confirmations(events', i) # {}
              /\ (/\ Did("open", i)' /\ ~remoteIrrigationPending[i]
                  /\ ~Did("dispatch", 0)')
                    => Confirmations(events', i) = {}
      ]_vars

Alerts(log, i) ==
    {k \in DOMAIN log : log[k].e = "sms" /\ log[k].k = "broken" /\ log[k].id = i}

\* C19: the stuck-button alert of a circuit is sent in the tick that sets
\* the circuit's buttonBrokenFlag, once, to PHONE_NUMBER whoever sent the
\* last frame, and in no other handler: not while the flag is clear and
\* never again once it is set.
C19_OneAlertPerBrokenButton ==
    [][\A i \in Circuits :
          /\ (ProgramStep /\ buttonBrokenFlag[i] /\ boots' = boots) =>
                Alerts(events', i) = {}
          /\ (ProgramStep /\ ~buttonBrokenFlag[i]) =>
                (Alerts(events', i) # {} <=> (TickStep /\ buttonBrokenFlag'[i]))
          /\ Cardinality(Alerts(events', i)) <= 1
          /\ \A k \in Alerts(events', i) : events'[k].s = PHONE_NUMBER
      ]_vars

\* the alert was sent while the last frame parsed came from another sender
C19_Witness ==
    /\ tick.ran /\ senderNum # PHONE_NUMBER
    /\ \E i \in Circuits : Alerts(events, i) # {} /\ buttonBrokenFlag[i]

\* the places in the log of a status report
Reports(log) == {k \in DOMAIN log : log[k].e = "sms" /\ log[k].k = "status"}

\* C20: a tick writes totalWaterVolume to the EEPROM periodically exactly
\* when its time is PersistInterval or more past the last periodic write
\* (or boot); the tick that writes also sends one status report; the write
\* is PersistInterval or more after the one before, and nothing else moves
\* prevEepromWriteTime.
C20_WriteWhenIntervalHasPassed ==
    [][/\ TickStep =>
             /\ Did("put", 0)' <=>
                   UGe(Sub32(prevMeasurementTime, prevEepromWriteTime), PersistInterval)
             /\ Did("put", 0)' =>
                   /\ Cardinality(Reports(events')) = 1
                   /\ eeprom' = totalWaterVolume'
                   /\ prevEepromWriteTime' = prevMeasurementTime
                   /\ UGe(Sub32(prevEepromWriteTime', prevEepromWriteTime),
                          PersistInterval)
       /\ (boots' = boots /\ ~(TickStep /\ Did("put", 0)')) =>
             prevEepromWriteTime' = prevEepromWriteTime
      ]_vars

\* the second periodic write: it stored a volume counted from pulses and the
\* tick sent the report
C20_Witness ==
    /\ tick.ran /\ Did("put", 0) /\ Reports(events) # {}
    /\ UGe(prevEepromWriteTime, 2 * PersistInterval)
    /\ eeprom = totalWaterVolume /\ eeprom > 0

\* C20 as the spec words it: a tick writes exactly when the time since the
\* last periodic write exceeds the persistence interval.
C20_WriteWhenIntervalIsExceeded ==
    [][TickStep =>
          (Did("put", 0)' <=>
              /\ UGe(Sub32(prevMeasurementTime, prevEepromWriteTime), PersistInterval)
              /\ Sub32(prevMeasurementTime, prevEepromWriteTime) # PersistInterval)
      ]_vars

\* C21: while the power is on totalWaterVolume never decreases, whatever
\* pulse counts the ticks read, except in a tick that reads 'r' from the
\* console: that tick leaves totalWaterVolume and the EEPROM both at zero.
C21_VolumeOnlyGrows ==
    [][boots' = boots =>
          IF TickStep /\ tick'.reset
          THEN totalWaterVolume' = 0 /\ eeprom' = 0
          ELSE totalWaterVolume' >= totalWaterVolume
      ]_vars

\* the volume was reset from the console and has grown again since, by the
\* pulses of a later tick
C21_Witness ==
    /\ boots = 0 /\ tick.ran /\ ~tick.reset
    /\ eeprom = 0 /\ totalWaterVolume > 0
    /\ pulsesUsed > 0 /\ pulsesCount = 0

\* Around the wrap of millis() a clock value, held as a two's-complement
\* word, is the time counted from the wrap, negative before it: the
\* difference of two such values as integers is the time that has truly
\* passed between them, which is what an unbounded clock would measure.
\* Every reference time of SpecWrap lies within the watch or less than a
\* persistence interval before it, so every true elapsed time is far below
\* the 2^32 ms of the wrap period.

\* the step is an iteration of loop() up to the test of line 197
LoopStep ==
    /\ pc = "loop" /\ boots' = boots /\ ProgramStep
    /\ pc' = "reset" \/ prevMeasurementTime' = prevMeasurementTime

\* line 197 decides as on the true time since the last tick
SamplingAsUnbounded ==
    LoopStep => (pc' = "reset" <=> clock' - prevMeasurementTime >= SAMPLE_TIME)

\* lines 333 and 359 decide as on the true time since the circuit started
DurationAsUnbounded ==
    (TickStep /\ tick'.armed) =>
        \A i \in Circuits :
            Did("close", i)' <=>
                /\ valveOpen[i]
                /\ prevMeasurementTime - irrigationStartTime[i]
                      >= EFFECTIVE_IRRIGATION_TIME(i)

\* lines 317 and 343 decide as on the true time since the circuit last started
CooldownAsUnbounded ==
    (TickStep /\ tick'.armed) =>
        \A i \in Circuits :
            Did("open", i)' <=>
                /\ tick'.buttonPressed[i] \/ remoteIrrigationPending[i]
                /\ ~valveOpen[i]
                /\ prevMeasurementTime - irrigationStartTime[i]
                      >= EFFECTIVE_IRRIGATION_TIME(i) + TIME_BETWEEN_IRRIGATIONS(i)

\* line 419 decides as on the true time since the pin was first read low
SafetyTimeAsUnbounded ==
    TickStep =>
        \A i \in Circuits :
            ~buttonBrokenFlag[i] =>
                (buttonBrokenFlag'[i] <=>
                    /\ tick'.pinLow[i]
                    /\ heldSince[i] # << >>
                    /\ tick'.readAt[i][1] - heldSince[i][1] >= BUTTON_SAFETY_TIME(i))

\* line 222 decides as on the true time since the last periodic write
PersistenceAsUnbounded ==
    TickStep =>
        (Did("put", 0)' <=>
            (prevMeasurementTime - prevEepromWriteTime) \div 60000
                >= EEPROM_WRITE_SAMPLE_TIME)

\* a valve opened before the wrap is closed by the first tick after it at
\* which EFFECTIVE_IRRIGATION_TIME has truly passed
ClosedOnTimeAcrossWrap ==
    TickStep =>
        \A i \in Circuits :
            (/\ valveOpen[i] /\ irrigationStartTime[i] < 0 /\ prevMeasurementTime >= 0
             /\ prevMeasurementTime - irrigationStartTime[i]
                   >= EFFECTIVE_IRRIGATION_TIME(i))
            => ~valveOpen'[i]

\* C22: with millis() a 32-bit counter that wraps to zero, each duration
\* test (sampling period, irrigation time, time between irrigations, button
\* safety time, persistence interval) decides as an unbounded clock would
\* whenever the time that has truly passed is below the wrap period; a valve
\* opened shortly before the wrap is closed by the first tick at which its
\* irrigation time has passed.
C22_ChecksDecideAsUnbounded ==
    [][/\ SamplingAsUnbounded
       /\ DurationAsUnbounded
       /\ CooldownAsUnbounded
       /\ SafetyTimeAsUnbounded
       /\ PersistenceAsUnbounded
       /\ ClosedOnTimeAcrossWrap
      ]_vars

\* C23: no valve is marked open while the relay is off, at the end of a
\* tick or at any other point between handlers, and every valve-open
\* actuation is performed by an armed tick with the relay already on.
C23_OpenValveHasRelayOn ==
    /\ \A i \in Circuits : valveOpen[i] => relayOn
    /\ \A k \in DOMAIN events :
          events[k].e = "open" => (events[k].relay /\ tick.ran /\ tick.armed)

\* a tick that found the relay off energised it and then opened a valve
C23_Witness ==
    /\ tick.ran /\ tick.armed /\ relayOn
    /\ \E i \in Circuits :
          /\ valveOpen[i]
          /\ \E j, k \in DOMAIN events :
                /\ j < k /\ events[j].e = "relayOn"
                /\ events[k].e = "open" /\ events[k].id = i

\* the places in the log of a relay closure confirmation
Closures(log) == {k \in DOMAIN log : log[k].e = "sms" /\ log[k].k = "closeAck"}

\* C24: once closeRelayRequested is set and the closure confirmation sent,
\* no valve is opened while the power is on: not by a later handler, and
\* not by the rest of the tick in which the command was parsed during a
\* send.
C24_NoOpenAfterClosure ==
    [][(ProgramStep /\ boots' = boots) =>
          /\ closeRelayRequested => \A i \in Circuits : ~Did("open", i)'
          /\ \A j \in Closures(events'), k \in DOMAIN events' :
                events'[k].e = "open" => k < j
      ]_vars

============================================================================
